---- MODULE Spec2Model ----
(***************************************************************************)
(* MVCC transactional layer of mnemonic-core: the in-memory VersionStore,  *)
(* the TransactionManager (begin / abort / commit with first-committer-    *)
(* wins validation), the "versions" column family of the RocksDB backend   *)
(* and the GraphEngine facade staging steps (store / relate / unrelate).   *)
(*                                                                         *)
(* commit_transaction holds no lock across its phases: every VersionStore  *)
(* call takes and releases its own RwLock guard.  A commit is therefore    *)
(* modelled as a sequence of steps (validate, one apply step per pending   *)
(* write, the batch write, the cleanup) that interleave with the steps of  *)
(* other threads.                                                          *)
(***************************************************************************)
EXTENDS Integers, Sequences, FiniteSets, TLC

\* ------------------------------------------------------------------ bounds
MaxTxns == 3
MaxTime == 1
NumConcepts == 2
NumRels == 1
MaxConcurrent == 2
MaxAborts == 1
MaxStorageFailures == 1

Txns == 1..MaxTxns
Time == 0..MaxTime
Concepts == 1..NumConcepts
Rels == 1..NumRels
Payloads == {"p"}

\* Option::None for timestamps and transaction ids
None == -1

VARIABLES
    now,                    \* the reading Utc::now() currently returns
    concept_versions,       \* VersionStore.concept_versions: id -> Vec<ConceptVersion>
    relationship_versions,  \* VersionStore.relationship_versions
    disk,                   \* the "versions" column family: set of [key, value]
    active_transactions,    \* TransactionManager.active_transactions (its keys)
    txn,                    \* the caller-owned Transaction values
    pc,                     \* where each transaction's caller / committing thread is
    todo,                   \* pending_writes entries the apply loop has not visited yet
    batch,                  \* the WriteBatch of a commit in progress
    overlapped,             \* history: pairs of transactions whose lifetimes overlapped
    error,                  \* the Err value a failed facade or abort call returned, per id
    manager,                \* what TransactionManager::new returned: "down" before the call,
                            \* "up" for Ok(manager), "failed" for Err
    held                    \* the RwLock guards each thread holds: pairs <<lock, mode>>

vars == <<now, concept_versions, relationship_versions, disk,
          active_transactions, txn, pc, todo, batch, overlapped, error, manager, held>>

\* ------------------------------------------------------------ entity model

\* Relationship type label; the engine treats it as an opaque string.
RelType == "knows"

EmptyMap == [x \in {} |-> 0]

MapPut(f, k, v) == [x \in (DOMAIN f) \cup {k} |-> IF x = k THEN v ELSE f[x]]

\* ConceptVersion::is_active_at
ConceptVersion_is_active_at(version, timestamp) ==
    /\ version.created_at <= timestamp
    /\ (version.deleted_at = None \/ version.deleted_at > timestamp)

\* Faulty variant: a version still counts as live at the very instant of its deletion.
RelationshipVersion_is_active_at_inclusive(version, timestamp) ==
    /\ version.created_at <= timestamp
    /\ (version.deleted_at = None \/ version.deleted_at >= timestamp)

\* RelationshipVersion::is_active_at
RelationshipVersion_is_active_at(version, timestamp) ==
    /\ version.created_at <= timestamp
    /\ (version.deleted_at = None \/ version.deleted_at > timestamp)

\* ConceptVersion::from_concept as called by commit_transaction: the version
\* number is the one the commit computed, created_at is the pending
\* concept's metadata.updated_at.
from_concept(concept, transaction_id, version) ==
    [ concept_id |-> concept.id,
      version    |-> version,
      data       |-> concept.data,
      created_at |-> concept.updated_at,
      created_by |-> transaction_id,
      deleted_at |-> None,
      deleted_by |-> None ]

\* RelationshipVersion::from_relationship
from_relationship(relationship, transaction_id) ==
    [ relationship_id   |-> relationship.id,
      version           |-> 1,
      source            |-> relationship.source,
      relationship_type |-> relationship.relationship_type,
      target            |-> relationship.target,
      created_at        |-> relationship.created_at,
      created_by        |-> transaction_id,
      deleted_at        |-> None,
      deleted_by        |-> None ]

\* ------------------------------------------------------------ VersionStore

\* An Option is modelled as a set: {} is None, {v} is Some(v).

\* The loop of get_concept_version_at_timestamp: scan the chain from the
\* newest-appended element backwards; the first version with
\* created_at <= timestamp decides.
RECURSIVE concept_scan_rev(_, _, _)
concept_scan_rev(versions_vec, i, timestamp) ==
    IF i = 0 THEN {}
    ELSE IF versions_vec[i].created_at <= timestamp
         THEN (IF ConceptVersion_is_active_at(versions_vec[i], timestamp)
               THEN {versions_vec[i]} ELSE {})
         ELSE concept_scan_rev(versions_vec, i - 1, timestamp)

\* The same loop in get_relationship_version_at_timestamp.
RECURSIVE relationship_scan_rev(_, _, _)
relationship_scan_rev(versions_vec, i, timestamp) ==
    IF i = 0 THEN {}
    ELSE IF versions_vec[i].created_at <= timestamp
         THEN (IF RelationshipVersion_is_active_at(versions_vec[i], timestamp)
               THEN {versions_vec[i]} ELSE {})
         ELSE relationship_scan_rev(versions_vec, i - 1, timestamp)

get_concept_version_at_timestamp(concept_id, timestamp) ==
    concept_scan_rev(concept_versions[concept_id],
                     Len(concept_versions[concept_id]), timestamp)

get_relationship_version_at_timestamp(relationship_id, timestamp) ==
    relationship_scan_rev(relationship_versions[relationship_id],
                          Len(relationship_versions[relationship_id]), timestamp)

\* Faulty variant: the probe looks at the oldest version of the chain.
has_concept_been_modified_since_first(concept_id, timestamp) ==
    LET versions_vec == concept_versions[concept_id] IN
    /\ Len(versions_vec) > 0
    /\ versions_vec[1].created_at > timestamp

has_concept_been_modified_since(concept_id, timestamp) ==
    LET versions_vec == concept_versions[concept_id] IN
    /\ Len(versions_vec) > 0
    /\ versions_vec[Len(versions_vec)].created_at > timestamp

has_relationship_been_modified_since(relationship_id, timestamp) ==
    LET versions_vec == relationship_versions[relationship_id] IN
    /\ Len(versions_vec) > 0
    /\ LET latest_version == versions_vec[Len(versions_vec)]
           last_mod_time == IF latest_version.deleted_at = None
                            THEN latest_version.created_at
                            ELSE latest_version.deleted_at
       IN last_mod_time > timestamp

\* ------------------------------------------------------------ RocksBackend

\* WriteBatch::put_cf followed by DB::write on one key: last writer wins.
put_cf(cf, key, value) ==
    {e \in cf : e.key # key} \cup {[key |-> key, value |-> value]}

\* store_concept_version: the put under key "cv:{concept_id}:{version}"
store_concept_version(version) ==
    [key |-> <<"cv", version.concept_id, version.version>>, value |-> version]

\* store_relationship_version: the put under key "rv:{relationship_id}:{version}"
store_relationship_version(version) ==
    [key |-> <<"rv", version.relationship_id, version.version>>, value |-> version]

\* DB::write(batch): every put of the batch lands atomically.  The keys of
\* one batch are pairwise distinct, so the order of the puts is immaterial.
RECURSIVE db_write(_, _)
db_write(cf, puts) ==
    IF puts = {} THEN cf
    ELSE LET p == CHOOSE x \in puts : TRUE
         IN db_write(put_cf(cf, p.key, p.value), puts \ {p})

\* The decimal digits `{}` formats a version number with.
RECURSIVE Digits(_)
Digits(n) == IF n < 10 THEN <<n>> ELSE Append(Digits(n \div 10), n % 10)

\* Lexicographic order of two digit strings, as the byte order of the keys
\* compares them: "10" sorts before "2", a proper prefix sorts first.
RECURSIVE LexLess(_, _)
LexLess(a, b) ==
    IF a = <<>> THEN b # <<>>
    ELSE IF b = <<>> THEN FALSE
    ELSE IF Head(a) # Head(b) THEN Head(a) < Head(b)
    ELSE LexLess(Tail(a), Tail(b))

\* Byte order of two keys of the versions column family: the prefix
\* ("cv:" before "rv:"), then the id, then the decimal version string.
KeyLess(k1, k2) ==
    IF k1[1] # k2[1] THEN k1[1] = "cv"
    ELSE IF k1[2] # k2[2] THEN k1[2] < k2[2]
    ELSE LexLess(Digits(k1[3]), Digits(k2[3]))

\* The values of a set of entries in iterator (key) order.
RECURSIVE InKeyOrder(_)
InKeyOrder(entries) ==
    IF entries = {} THEN <<>>
    ELSE LET first == CHOOSE e \in entries :
                          \A o \in entries \ {e} : KeyLess(e.key, o.key)
         IN <<first.value>> \o InKeyOrder(entries \ {first})

\* A stored value whose bytes are not the encoding of any version record.
Undecodable == [bytes |-> "garbage"]

\* bincode::deserialize::<ConceptVersion>(&value).is_ok(): the bytes of a
\* RelationshipVersion carry no valid ConceptData variant tag, garbage
\* decodes as nothing.
decodes_as_concept_version(value) == "concept_id" \in DOMAIN value

\* load_all_concept_versions: a full scan of the column family in key
\* order; a value that does not decode as a ConceptVersion is skipped.
load_all_concept_versions(cf) ==
    InKeyOrder({e \in cf : decodes_as_concept_version(e.value)})

\* The hydration loop of TransactionManager::new: every loaded version is
\* pushed onto the chain of its concept_id, in load order.
RECURSIVE hydrate(_, _)
hydrate(map, loaded) ==
    IF loaded = <<>> THEN map
    ELSE hydrate([map EXCEPT ![Head(loaded).concept_id] = Append(@, Head(loaded))],
                 Tail(loaded))

\* The concept index a TransactionManager::new builds over a store.
TransactionManager_new(cf) ==
    hydrate([c \in Concepts |-> <<>>], load_all_concept_versions(cf))

\* ------------------------------------------------------------- Transaction

\* Transaction::new
Transaction_new(start) ==
    [ start_timestamp             |-> start,
      read_set                    |-> {},
      write_set                   |-> {},
      relationship_write_set      |-> {},
      pending_writes              |-> EmptyMap,
      pending_relationship_writes |-> EmptyMap,
      pending_deletes             |-> {} ]

Init ==
    /\ now = 0
    /\ concept_versions = [c \in Concepts |-> <<>>]
    /\ relationship_versions = [r \in Rels |-> <<>>]
    /\ disk = {}
    /\ active_transactions = {}
    /\ txn = [t \in Txns |-> Transaction_new(None)]
    /\ pc = [t \in Txns |-> "idle"]
    /\ todo = [t \in Txns |-> {}]
    /\ batch = [t \in Txns |-> {}]
    /\ overlapped = {}
    /\ error = [t \in Txns |-> <<>>]
    /\ manager = "up"
    /\ held = [t \in Txns |-> {}]

\* The clock advances; two calls may also read the same instant.
Tick ==
    /\ now < MaxTime
    /\ now' = now + 1
    /\ UNCHANGED <<concept_versions, relationship_versions, disk,
                   active_transactions, txn, pc, todo, batch, overlapped, error, manager, held>>

\* Transactions whose caller still holds the value or whose commit is running.
InFlight == {t \in Txns : pc[t] \in {"open", "apply", "cleanup"}}

\* TransactionManager::begin_transaction.  Ids are fresh: transaction t is
\* the t-th one begun.  At most MaxConcurrent callers work at a time.
begin_transaction(t) ==
    /\ pc[t] = "idle"
    /\ Cardinality(InFlight) < MaxConcurrent
    /\ \A u \in Txns : u < t => pc[u] # "idle"
    /\ txn' = [txn EXCEPT ![t] = Transaction_new(now)]
    /\ active_transactions' = active_transactions \cup {t}
    /\ pc' = [pc EXCEPT ![t] = "open"]
    /\ overlapped' = overlapped \cup {{u, t} : u \in InFlight}
    /\ UNCHANGED <<manager, held, now, concept_versions, relationship_versions, disk,
                   todo, batch, error>>


\* A caller stages a new or updated concept in its transaction, as
\* GraphEngine::store and the tests do: the Concept value is built with
\* metadata.updated_at = Utc::now() and inserted into write_set and
\* pending_writes.
\* Concept ids come from Uuid::new_v4 (Concept::new) or name a concept some
\* transaction already wrote: the id is either known or the next unused one.
KnownConcept(c) ==
    \/ Len(concept_versions[c]) > 0
    \/ \E u \in Txns : c \in DOMAIN txn[u].pending_writes

write_concept(t, concept_id, data) ==
    /\ pc[t] = "open"
    /\ txn[t].relationship_write_set = {}
    /\ \A c \in Concepts : c < concept_id => KnownConcept(c)
    /\ concept_id \notin DOMAIN txn[t].pending_writes
    /\ txn' = [txn EXCEPT
                 ![t].write_set = @ \cup {concept_id},
                 ![t].pending_writes =
                     MapPut(@, concept_id,
                            [id |-> concept_id, data |-> data, updated_at |-> now])]
    /\ UNCHANGED <<manager, held, now, concept_versions, relationship_versions, disk,
                   active_transactions, pc, todo, batch, overlapped, error>>

\* Relationship ids come from Uuid::new_v4: an id is fresh when no
\* transaction has staged it yet.
UsedRel(r) ==
    \/ Len(relationship_versions[r]) > 0
    \/ \E u \in Txns : r \in DOMAIN txn[u].pending_relationship_writes

FreshRel(r) == ~UsedRel(r) /\ \A q \in Rels : q < r => UsedRel(q)

\* GraphEngine::relate up to the commit: both endpoints must have an active
\* version as of the start timestamp, then the new Relationship (created_at
\* = Utc::now()) is staged.
relate(t, r, source, target) ==
    /\ pc[t] = "open"
    /\ txn[t] = Transaction_new(txn[t].start_timestamp)
    /\ FreshRel(r)
    /\ get_concept_version_at_timestamp(source, txn[t].start_timestamp) # {}
    /\ get_concept_version_at_timestamp(target, txn[t].start_timestamp) # {}
    /\ txn' = [txn EXCEPT
                 ![t].read_set = @ \cup {source, target},
                 ![t].relationship_write_set = @ \cup {r},
                 ![t].pending_relationship_writes =
                     MapPut(@, r, [id |-> r, source |-> source,
                                   relationship_type |-> RelType,
                                   target |-> target, created_at |-> now])]
    /\ UNCHANGED <<manager, held, now, concept_versions, relationship_versions, disk,
                   active_transactions, pc, todo, batch, overlapped, error>>

\* Faulty variant: the target is probed before the source.
relate_not_found_target_first(t, source, target) ==
    /\ pc[t] = "open"
    /\ txn[t] = Transaction_new(txn[t].start_timestamp)
    /\ LET source_version ==
               get_concept_version_at_timestamp(source, txn[t].start_timestamp)
           target_version ==
               get_concept_version_at_timestamp(target, txn[t].start_timestamp)
       IN /\ source_version = {} \/ target_version = {}
          /\ error' = [error EXCEPT ![t] =
                 <<"ConceptNotFound",
                   IF target_version = {} THEN target ELSE source, source, target>>]
    /\ pc' = [pc EXCEPT ![t] = "failed"]
    /\ txn' = [txn EXCEPT ![t] = Transaction_new(None)]
    /\ UNCHANGED <<manager, held, now, concept_versions, relationship_versions, disk,
                   active_transactions, todo, batch, overlapped>>

\* GraphEngine::relate, the early returns: the source is probed first, then
\* the target; the closure returns Err(ConceptNotFound(id)) and its
\* Transaction value is dropped; the entry begin_transaction made stays in
\* the active map.  error keeps the Err value and the call's arguments.
relate_not_found(t, source, target) ==
    /\ pc[t] = "open"
    /\ txn[t] = Transaction_new(txn[t].start_timestamp)
    /\ LET source_version ==
               get_concept_version_at_timestamp(source, txn[t].start_timestamp)
           target_version ==
               get_concept_version_at_timestamp(target, txn[t].start_timestamp)
       IN /\ source_version = {} \/ target_version = {}
          /\ error' = [error EXCEPT ![t] =
                 <<"ConceptNotFound",
                   IF source_version = {} THEN source ELSE target, source, target>>]
    /\ pc' = [pc EXCEPT ![t] = "failed"]
    /\ txn' = [txn EXCEPT ![t] = Transaction_new(None)]
    /\ UNCHANGED <<manager, held, now, concept_versions, relationship_versions, disk,
                   active_transactions, todo, batch, overlapped>>

\* Faulty variant: the delete is staged without probing the relationship.
unrelate_unchecked(t, r) ==
    /\ pc[t] = "open"
    /\ txn[t] = Transaction_new(txn[t].start_timestamp)
    /\ r \notin txn[t].pending_deletes
    /\ txn' = [txn EXCEPT
                 ![t].pending_deletes = @ \cup {r},
                 ![t].relationship_write_set = @ \cup {r}]
    /\ UNCHANGED <<manager, held, now, concept_versions, relationship_versions, disk,
                   active_transactions, pc, todo, batch, overlapped, error>>

\* Faulty variant: the delete is staged but the id is not entered into
\* relationship_write_set.
unrelate_without_write_set(t, r) ==
    /\ pc[t] = "open"
    /\ txn[t] = Transaction_new(txn[t].start_timestamp)
    /\ get_relationship_version_at_timestamp(r, txn[t].start_timestamp) # {}
    /\ txn' = [txn EXCEPT ![t].pending_deletes = @ \cup {r}]
    /\ UNCHANGED <<manager, held, now, concept_versions, relationship_versions, disk,
                   active_transactions, pc, todo, batch, overlapped, error>>

\* GraphEngine::unrelate up to the commit: the relationship must have an
\* active version as of the start timestamp.
unrelate(t, r) ==
    /\ pc[t] = "open"
    /\ txn[t] = Transaction_new(txn[t].start_timestamp)
    /\ get_relationship_version_at_timestamp(r, txn[t].start_timestamp) # {}
    /\ txn' = [txn EXCEPT
                 ![t].pending_deletes = @ \cup {r},
                 ![t].relationship_write_set = @ \cup {r}]
    /\ UNCHANGED <<manager, held, now, concept_versions, relationship_versions, disk,
                   active_transactions, pc, todo, batch, overlapped, error>>

\* GraphEngine::unrelate, the early return Err(RelationshipNotFound(rel_id)).
unrelate_not_found(t, r) ==
    /\ pc[t] = "open"
    /\ txn[t] = Transaction_new(txn[t].start_timestamp)
    /\ get_relationship_version_at_timestamp(r, txn[t].start_timestamp) = {}
    /\ error' = [error EXCEPT ![t] = <<"RelationshipNotFound", r>>]
    /\ pc' = [pc EXCEPT ![t] = "failed"]
    /\ txn' = [txn EXCEPT ![t] = Transaction_new(None)]
    /\ UNCHANGED <<manager, held, now, concept_versions, relationship_versions, disk,
                   active_transactions, todo, batch, overlapped>>

\* Transactions removed from the active map by abort_transaction: only
\* abort and the cleanup of a successful commit remove an entry.
Aborted == {t \in Txns : pc[t] \notin {"idle", "committed"}
                         /\ t \notin active_transactions}

\* TransactionManager::abort_transaction, the Ok branch.  It takes only the
\* id, so the caller keeps its Transaction value, and it may run while
\* another thread is inside commit_transaction for the same id.  The Err
\* branch (id not in the map) changes no state.
abort_transaction(t) ==
    /\ t \in InFlight
    /\ Cardinality(Aborted) < MaxAborts
    /\ t \in active_transactions
    /\ active_transactions' = active_transactions \ {t}
    /\ UNCHANGED <<manager, held, now, concept_versions, relationship_versions, disk,
                   txn, pc, todo, batch, overlapped, error>>

\* Faulty variant: an unknown id is entered into the map before the error
\* is returned.
abort_not_found_inserts(t) ==
    /\ t \notin active_transactions
    /\ error[t] = <<>>
    /\ error' = [error EXCEPT ![t] = <<"Transaction", t>>]
    /\ active_transactions' = active_transactions \cup {t}
    /\ UNCHANGED <<manager, held, now, concept_versions, relationship_versions, disk,
                   txn, pc, todo, batch, overlapped>>

\* TransactionManager::abort_transaction, the Err branch: the id is not in
\* the map, remove returns None and Err(Transaction("... not found to
\* abort")) is returned.  One failing call per id is followed.
abort_not_found(t) ==
    /\ t \notin active_transactions
    /\ error[t] = <<>>
    /\ error' = [error EXCEPT ![t] = <<"Transaction", t>>]
    /\ UNCHANGED <<manager, held, now, concept_versions, relationship_versions, disk,
                   active_transactions, txn, pc, todo, batch, overlapped>>

\* ------------------------------------------------------ commit_transaction

\* Faulty variant: the ids of read_set are probed as well.
validate_transaction_with_reads(t) ==
    \A concept_id \in txn[t].write_set \cup txn[t].read_set :
        ~has_concept_been_modified_since(concept_id, txn[t].start_timestamp)

\* validate_transaction: the loop over write_set.
validate_transaction(t) ==
    \A concept_id \in txn[t].write_set :
        ~has_concept_been_modified_since(concept_id, txn[t].start_timestamp)

\* Phase 1 repeated for relationship_write_set.
validate_relationship_write_set(t) ==
    \A relationship_id \in txn[t].relationship_write_set :
        ~has_relationship_been_modified_since(relationship_id,
                                              txn[t].start_timestamp)

\* commit_transaction takes the Transaction by value: when it returns, the
\* value is gone.
Dropped(transaction) == Transaction_new(None)

\* Faulty variant: the pending writes are appended to the index before validation
\* runs, and a conflict leaves them there.
commit_validate_after_append(t) ==
    /\ pc[t] = "open"
    /\ IF validate_transaction(t) /\ validate_relationship_write_set(t)
       THEN /\ pc' = [pc EXCEPT ![t] = "apply"]
            /\ todo' = [todo EXCEPT ![t] = DOMAIN txn[t].pending_writes]
            /\ txn' = txn
            /\ concept_versions' = concept_versions
       ELSE /\ pc' = [pc EXCEPT ![t] = "conflict"]
            /\ todo' = todo
            /\ txn' = [txn EXCEPT ![t] = Dropped(@)]
            /\ concept_versions' =
                   [c \in Concepts |->
                       IF c \in DOMAIN txn[t].pending_writes
                       THEN Append(concept_versions[c],
                                   from_concept(txn[t].pending_writes[c], t,
                                                Len(concept_versions[c]) + 1))
                       ELSE concept_versions[c]]
    /\ UNCHANGED <<manager, held, now, relationship_versions, disk,
                   active_transactions, batch, overlapped, error>>

\* Phase 1.  commit_transaction never looks the transaction up in
\* active_transactions, so it accepts any Transaction value the caller holds.
commit_validate(t) ==
    /\ pc[t] = "open"
    /\ IF validate_transaction(t) /\ validate_relationship_write_set(t)
       THEN /\ pc' = [pc EXCEPT ![t] = "apply"]
            /\ todo' = [todo EXCEPT ![t] = DOMAIN txn[t].pending_writes]
            /\ txn' = txn
       ELSE /\ pc' = [pc EXCEPT ![t] = "conflict"]
            /\ todo' = todo
            /\ txn' = [txn EXCEPT ![t] = Dropped(@)]
    /\ UNCHANGED <<manager, held, now, concept_versions, relationship_versions, disk,
                   active_transactions, batch, overlapped, error>>

\* The version number the apply loop computes for one pending write.
next_version_num(t, concept_id) ==
    LET last_version ==
            get_concept_version_at_timestamp(concept_id, txn[t].start_timestamp)
    IN IF last_version = {} THEN 1
       ELSE (CHOOSE v \in last_version : TRUE).version + 1

\* Phase 2, one iteration of the loop over pending_writes (HashMap order is
\* arbitrary): the put goes into the batch and the version is appended to
\* the VersionStore at once.
commit_apply(t, concept_id) ==
    /\ pc[t] = "apply"
    /\ concept_id \in todo[t]
    /\ LET new_version == from_concept(txn[t].pending_writes[concept_id], t,
                                       next_version_num(t, concept_id))
       IN /\ batch' = [batch EXCEPT ![t] = @ \cup {store_concept_version(new_version)}]
          /\ concept_versions' =
                 [concept_versions EXCEPT ![concept_id] = Append(@, new_version)]
    /\ todo' = [todo EXCEPT ![t] = @ \ {concept_id}]
    /\ UNCHANGED <<manager, held, now, relationship_versions, disk, active_transactions,
                   txn, pc, overlapped, error>>

\* The tombstone a pending delete produces: the newest version's successor,
\* stamped with the commit instant.
tombstone(t, relationship_id) ==
    LET chain == relationship_versions[relationship_id]
        prior == chain[Len(chain)]
    IN [prior EXCEPT !.version = prior.version + 1,
                     !.created_at = now, !.created_by = t,
                     !.deleted_at = now, !.deleted_by = t]

\* The relationship versions a commit installs: first versions for
\* pending_relationship_writes, tombstones for pending_deletes.
relationship_changes(t) ==
    {from_relationship(txn[t].pending_relationship_writes[r], t) :
        r \in DOMAIN txn[t].pending_relationship_writes}
    \cup
    {tombstone(t, r) :
        r \in {q \in txn[t].pending_deletes : Len(relationship_versions[q]) > 0}}

RECURSIVE add_relationship_versions(_, _)
add_relationship_versions(map, versions) ==
    IF versions = {} THEN map
    ELSE LET v == CHOOSE x \in versions : TRUE
         IN add_relationship_versions(
                [map EXCEPT ![v.relationship_id] = Append(@, v)], versions \ {v})

\* self.backend.db.write(batch) succeeds.
commit_write_ok(t) ==
    /\ pc[t] = "apply"
    /\ todo[t] = {}
    /\ LET rel_versions == relationship_changes(t)
       IN /\ disk' = db_write(disk, batch[t] \cup
                          {store_relationship_version(v) : v \in rel_versions})
          /\ relationship_versions' =
                 add_relationship_versions(relationship_versions, rel_versions)
    /\ pc' = [pc EXCEPT ![t] = "cleanup"]
    /\ batch' = [batch EXCEPT ![t] = {}]
    /\ UNCHANGED <<manager, held, now, concept_versions, active_transactions, txn, todo, overlapped, error>>

\* self.backend.db.write(batch) fails: `?` returns the Storage error at once.
commit_write_fail(t) ==
    /\ pc[t] = "apply"
    /\ Cardinality({u \in Txns : pc[u] = "storage_error"}) < MaxStorageFailures
    /\ todo[t] = {}
    /\ pc' = [pc EXCEPT ![t] = "storage_error"]
    /\ batch' = [batch EXCEPT ![t] = {}]
    /\ txn' = [txn EXCEPT ![t] = Dropped(@)]
    /\ UNCHANGED <<manager, held, now, concept_versions, relationship_versions, disk,
                   active_transactions, todo, overlapped, error>>

\* Faulty variant: Ok(()) is returned but the entry stays in the active map.
commit_cleanup_keeps_entry(t) ==
    /\ pc[t] = "cleanup"
    /\ pc' = [pc EXCEPT ![t] = "committed"]
    /\ txn' = [txn EXCEPT ![t] = Dropped(@)]
    /\ UNCHANGED <<manager, held, now, concept_versions, relationship_versions, disk,
                   active_transactions, todo, batch, overlapped, error>>

\* Phase 3: the transaction leaves the active map and Ok(()) is returned.
commit_cleanup(t) ==
    /\ pc[t] = "cleanup"
    /\ active_transactions' = active_transactions \ {t}
    /\ pc' = [pc EXCEPT ![t] = "committed"]
    /\ txn' = [txn EXCEPT ![t] = Dropped(@)]
    /\ UNCHANGED <<manager, held, now, concept_versions, relationship_versions, disk,
                   todo, batch, overlapped, error>>

Next ==
    \/ Tick
    \/ \E t \in Txns : begin_transaction(t)
    \/ \E t \in Txns, c \in Concepts, d \in Payloads : write_concept(t, c, d)
    \/ \E t \in Txns, r \in Rels, s \in Concepts, g \in Concepts : relate(t, r, s, g)
    \/ \E t \in Txns, r \in Rels : unrelate(t, r)
    \/ \E t \in Txns : abort_transaction(t)
    \/ \E t \in Txns : commit_validate(t)
    \/ \E t \in Txns, c \in Concepts : commit_apply(t, c)
    \/ \E t \in Txns : commit_write_ok(t)
    \/ \E t \in Txns : commit_write_fail(t)
    \/ \E t \in Txns : commit_cleanup(t)

Spec == Init /\ [][Next]_vars

\* ------------------------------------------------------- the graph facade
\* A manager constructed over a store an earlier session left behind: any
\* subset of the concepts has its version 1 on disk, written at instant 0 by
\* a transaction of that session, and TransactionManager::new hydrates the
\* concept index from it.  The callers then use the one-shot facade calls
\* relate / unrelate and abort.
SeedTxn == 0

SeedVersion(c) ==
    from_concept([id |-> c, data |-> "p", updated_at |-> 0], SeedTxn, 1)

InitFacade ==
    /\ now = 0
    /\ \E stored \in SUBSET Concepts :
          disk = db_write({}, {store_concept_version(SeedVersion(c)) : c \in stored})
    /\ concept_versions = TransactionManager_new(disk)
    /\ relationship_versions = [r \in Rels |-> <<>>]
    /\ active_transactions = {}
    /\ txn = [t \in Txns |-> Transaction_new(None)]
    /\ pc = [t \in Txns |-> "idle"]
    /\ todo = [t \in Txns |-> {}]
    /\ batch = [t \in Txns |-> {}]
    /\ overlapped = {}
    /\ error = [t \in Txns |-> <<>>]
    /\ manager = "up"
    /\ held = [t \in Txns |-> {}]

NextFacade ==
    \/ Tick
    \/ \E t \in Txns : begin_transaction(t)
    \/ \E t \in Txns, r \in Rels, s \in Concepts, g \in Concepts : relate(t, r, s, g)
    \/ \E t \in Txns, s \in Concepts, g \in Concepts : relate_not_found(t, s, g)
    \/ \E t \in Txns, r \in Rels : unrelate(t, r)
    \/ \E t \in Txns, r \in Rels : unrelate_not_found(t, r)
    \/ \E t \in Txns : abort_transaction(t)
    \/ \E t \in Txns : abort_not_found(t)
    \/ \E t \in Txns : commit_validate(t)
    \/ \E t \in Txns : commit_write_ok(t)
    \/ \E t \in Txns : commit_write_fail(t)
    \/ \E t \in Txns : commit_cleanup(t)

SpecFacade == InitFacade /\ [][NextFacade]_vars

\* ------------------------------------------------- caller-built transactions
\* The fields of Transaction are public: a caller of the TransactionManager
\* may fill pending_writes itself and leave write_set alone.
stage_pending_only(t, concept_id, data) ==
    /\ pc[t] = "open"
    /\ \A c \in Concepts : c < concept_id => KnownConcept(c)
    /\ concept_id \notin DOMAIN txn[t].pending_writes
    /\ txn' = [txn EXCEPT
                 ![t].pending_writes =
                     MapPut(@, concept_id,
                            [id |-> concept_id, data |-> data, updated_at |-> now])]
    /\ UNCHANGED <<manager, held, now, concept_versions, relationship_versions, disk,
                   active_transactions, pc, todo, batch, overlapped, error>>

NextCaller ==
    \/ Tick
    \/ \E t \in Txns : begin_transaction(t)
    \/ \E t \in Txns, c \in Concepts, d \in Payloads : write_concept(t, c, d)
    \/ \E t \in Txns, c \in Concepts, d \in Payloads : stage_pending_only(t, c, d)
    \/ \E t \in Txns : commit_validate(t)
    \/ \E t \in Txns, c \in Concepts : commit_apply(t, c)
    \/ \E t \in Txns : commit_write_ok(t)
    \/ \E t \in Txns : commit_cleanup(t)

SpecCaller == Init /\ [][NextCaller]_vars

\* ------------------------------------------------------- a retrying writer
\* Two callers of the manager: a writer that begins a transaction, stages a
\* write and commits, and begins afresh after every TransactionConflict;
\* and a rival that stores to a concept the writer has staged.  The threads
\* are scheduled so that in every round the clock advances after the writer
\* has begun, the rival then begins, stages and commits, and the writer's
\* commit runs last.  A caller slot is reused by the next transaction of
\* the same caller; the clock is capped at MaxRetries rounds.
MaxRetries == 3

Writer == 1
Rival == 2

tick_round ==
    /\ now < MaxRetries
    /\ pc[Writer] = "open"
    /\ txn[Writer].start_timestamp = now
    /\ now' = now + 1
    /\ UNCHANGED <<concept_versions, relationship_versions, disk,
                   active_transactions, txn, pc, todo, batch, overlapped, error, manager, held>>

writer_begin ==
    /\ now < MaxRetries
    /\ begin_transaction(Writer)

writer_stage(c, d) == write_concept(Writer, c, d)

writer_commit ==
    /\ pc[Rival] = "committed"
    /\ commit_validate(Writer)

rival_begin ==
    /\ pc[Writer] = "open"
    /\ txn[Writer].start_timestamp < now
    /\ txn[Writer].write_set # {}
    /\ begin_transaction(Rival)

rival_stage(c, d) ==
    /\ c \in txn[Writer].write_set
    /\ write_concept(Rival, c, d)

rival_commit ==
    /\ txn[Rival].write_set # {}
    /\ commit_validate(Rival)

\* The caller's next call of begin_transaction: the Result of the previous
\* commit has been consumed, the Transaction value is gone.
restart(t) ==
    /\ \/ t = Rival /\ pc[Rival] = "committed" /\ pc[Writer] = "conflict"
       \/ t = Writer /\ pc[Writer] = "conflict" /\ pc[Rival] = "idle"
    /\ pc' = [pc EXCEPT ![t] = "idle"]
    /\ UNCHANGED <<now, concept_versions, relationship_versions, disk,
                   active_transactions, txn, todo, batch, overlapped, error, manager, held>>

NextStarve ==
    \/ tick_round
    \/ writer_begin
    \/ \E c \in Concepts, d \in Payloads : writer_stage(c, d)
    \/ writer_commit
    \/ rival_begin
    \/ \E c \in Concepts, d \in Payloads : rival_stage(c, d)
    \/ rival_commit
    \/ \E c \in Concepts : commit_apply(Rival, c)
    \/ commit_write_ok(Rival)
    \/ commit_cleanup(Rival)
    \/ \E t \in {Writer, Rival} : restart(t)

\* Every thread that can take a step eventually takes one.
SpecStarve == Init /\ [][NextStarve]_vars /\ WF_vars(NextStarve)

\* ---------------------------------------------------------------- hydration
\* TransactionManager::new over a store earlier sessions left behind.  Every
\* concept has a dense history of versions 1..n on disk, n up to
\* MaxStoredVersions, each under its key "cv:{id}:{version}"; at most one
\* stored value is damaged and no longer decodes.
MaxStoredVersions == 11

StoredVersion(c, n) ==
    from_concept([id |-> c, data |-> "p", updated_at |-> 0], SeedTxn, n)

StoredHistory(count) ==
    UNION {{store_concept_version(StoredVersion(c, n)) : n \in 1..count[c]} :
              c \in Concepts}

Damage(cf, keys) ==
    {IF e.key \in keys THEN [key |-> e.key, value |-> Undecodable] ELSE e : e \in cf}

\* The relationship index TransactionManager::new builds: VersionStore::new()
\* starts empty and new never calls load_all_relationship_versions.
TransactionManager_new_relationships(cf) == [r \in Rels |-> <<>>]

InitHydrate ==
    /\ now = 0
    /\ \E count \in [Concepts -> 0..MaxStoredVersions] :
          LET history == StoredHistory(count)
          IN \E keys \in {{}} \cup {{e.key} : e \in history} :
                disk = Damage(history, keys)
    /\ concept_versions = [c \in Concepts |-> <<>>]
    /\ relationship_versions = [r \in Rels |-> <<>>]
    /\ active_transactions = {}
    /\ txn = [t \in Txns |-> Transaction_new(None)]
    /\ pc = [t \in Txns |-> "idle"]
    /\ todo = [t \in Txns |-> {}]
    /\ batch = [t \in Txns |-> {}]
    /\ overlapped = {}
    /\ error = [t \in Txns |-> <<>>]
    /\ manager = "down"
    /\ held = [t \in Txns |-> {}]

\* TransactionManager::new, every read of the scan succeeding: Ok(manager)
\* with the index the hydration loop built.
new_ok ==
    /\ manager = "down"
    /\ held = [t \in Txns |-> {}]
    /\ concept_versions' = TransactionManager_new(disk)
    /\ relationship_versions' = TransactionManager_new_relationships(disk)
    /\ manager' = "up"
    /\ UNCHANGED <<now, disk, active_transactions, txn, pc, todo, batch,
                   overlapped, error, held>>

\* TransactionManager::new, the iterator yielding Err: `?` passes the
\* Storage error on and no manager exists.
new_storage_error ==
    /\ manager = "down"
    /\ held = [t \in Txns |-> {}]
    /\ manager' = "failed"
    /\ UNCHANGED <<now, concept_versions, relationship_versions, disk,
                   active_transactions, txn, pc, todo, batch, overlapped, error, held>>

NextHydrate ==
    \/ new_ok
    \/ new_storage_error

SpecHydrate == InitHydrate /\ [][NextHydrate]_vars

TypeOK ==
    /\ now \in Time
    /\ active_transactions \subseteq Txns
    /\ manager \in {"down", "up", "failed"}
    /\ \A t \in Txns : pc[t] \in {"idle", "open", "apply", "cleanup", "committed",
                                  "conflict", "storage_error", "failed"}

\* --------------------------------------------------------------- read paths

\* VersionStore::get_all_active_relationships: for every relationship id the
\* newest version of its chain, kept iff it is active at `timestamp` (now).
get_all_active_relationships(timestamp) ==
    {relationship_versions[r][Len(relationship_versions[r])] :
        r \in {q \in Rels :
                 /\ Len(relationship_versions[q]) > 0
                 /\ RelationshipVersion_is_active_at(
                        relationship_versions[q][Len(relationship_versions[q])],
                        timestamp)}}

\* Faulty variant: the filter on the source is missing.
retrieve_by_source_unfiltered(source_id) ==
    {[ id                |-> version.relationship_id,
       source            |-> version.source,
       relationship_type |-> version.relationship_type,
       target            |-> version.target,
       created_at        |-> version.created_at,
       version           |-> version.version,
       transaction_id    |-> version.created_by ] :
        version \in get_all_active_relationships(now)}

\* GraphEngine::retrieve_by_source: filter by source, map back to Relationship.
retrieve_by_source(source_id) ==
    {[ id                |-> version.relationship_id,
       source            |-> version.source,
       relationship_type |-> version.relationship_type,
       target            |-> version.target,
       created_at        |-> version.created_at,
       version           |-> version.version,
       transaction_id    |-> version.created_by ] :
        version \in {v \in get_all_active_relationships(now) : v.source = source_id}}

\* ------------------------------------------------- vocabulary of the claims

Ok(t) == pc[t] = "committed"

ConceptRecords ==
    UNION {{concept_versions[c][i] : i \in 1..Len(concept_versions[c])} : c \in Concepts}

RelationshipRecords ==
    UNION {{relationship_versions[r][i] : i \in 1..Len(relationship_versions[r])} :
              r \in Rels}

IndexRecords == ConceptRecords \cup RelationshipRecords

DiskRecords == {e.value : e \in disk}

\* The version numbers stored on disk for one entity.
DiskVersions(kind, id) == {e.key[3] : e \in {x \in disk : x.key[1] = kind /\ x.key[2] = id}}

\* The entity ids for which a transaction has installed a version.
WroteIds(t) ==
    {<<"cv", v.concept_id>> : v \in {x \in ConceptRecords : x.created_by = t}}
    \cup
    {<<"rv", v.relationship_id>> : v \in {x \in RelationshipRecords : x.created_by = t}}

\* No version record names t as its creator, in the index or on disk.
NoTraceOf(t) == \A v \in IndexRecords \cup DiskRecords : v.created_by # t

\* No commit is between its first index append and its return.
Quiescent == \A t \in Txns : pc[t] \notin {"apply", "cleanup"}

\* ------------------------------------------------------------------ claims

\* C1: two transactions with overlapping lifetimes that wrote a common
\* concept or relationship id never both return Ok from commit_transaction.
C1_FirstCommitterWins ==
    \A t, u \in Txns :
        (t # u /\ {t, u} \in overlapped /\ Ok(t) /\ Ok(u))
            => WroteIds(t) \cap WroteIds(u) = {}

\* C2: the version numbers of every chain are 1, 2, ..., N in append order,
\* and the versions stored on disk for every entity are 1..N without a gap.
DenseChain(chain) == \A i \in 1..Len(chain) : chain[i].version = i

C2_DenseVersions ==
    /\ \A c \in Concepts :
         /\ DenseChain(concept_versions[c])
         /\ DiskVersions("cv", c) = 1..Cardinality(DiskVersions("cv", c))
    /\ \A r \in Rels :
         /\ DenseChain(relationship_versions[r])
         /\ DiskVersions("rv", r) = 1..Cardinality(DiskVersions("rv", r))

\* C3: read_as_of(id, T) returns the unique version v of the chain with
\* v.created_at <= T < (v.deleted_at, else the next version's created_at,
\* else infinity), and none when there is no such version.
InForce(chain, i, T) ==
    /\ chain[i].created_at <= T
    /\ IF chain[i].deleted_at # None THEN T < chain[i].deleted_at
       ELSE IF i < Len(chain) THEN T < chain[i + 1].created_at
       ELSE TRUE

ReadMatches(chain, answer, T) ==
    LET inforce == {i \in 1..Len(chain) : InForce(chain, i, T)}
    IN IF inforce = {} THEN answer = {}
       ELSE /\ Cardinality(inforce) = 1
            /\ answer = {chain[i] : i \in inforce}

C3_ReadAsOf ==
    /\ \A c \in Concepts, T \in Time :
          ReadMatches(concept_versions[c], get_concept_version_at_timestamp(c, T), T)
    /\ \A r \in Rels, T \in Time :
          ReadMatches(relationship_versions[r],
                      get_relationship_version_at_timestamp(r, T), T)

\* C4: after any sequence of successful commits, a TransactionManager
\* constructed over the same store answers read_as_of(id, T) for every
\* concept id and every T as the running manager does.
C4_RestartEquivalence ==
    (Quiescent /\ \A t \in Txns : pc[t] # "storage_error")
        => \A c \in Concepts, T \in Time :
              LET hydrated == TransactionManager_new(disk)[c]
              IN concept_scan_rev(hydrated, Len(hydrated), T)
                     = get_concept_version_at_timestamp(c, T)

\* C5: whenever no commit is inside its batch, the version records of the
\* index are exactly the version records on disk, also after a commit that
\* returned a Storage error.
C5_IndexEqualsDisk ==
    (\A t \in Txns : pc[t] # "apply") => IndexRecords = DiskRecords

\* C6: once commit_transaction has returned Ok for t, every version record
\* t created is on disk under its own key, now and ever after.
KeyOf(v) ==
    IF "concept_id" \in DOMAIN v THEN <<"cv", v.concept_id, v.version>>
    ELSE <<"rv", v.relationship_id, v.version>>

C6_CommittedIsDurable ==
    \A t \in Txns : Ok(t) =>
        \A v \in {x \in IndexRecords : x.created_by = t} :
            [key |-> KeyOf(v), value |-> v] \in disk

\* C7: an aborted transaction leaves no trace: no version record created by
\* it is ever in the index or on disk.
C7_AbortLeavesNoTrace == \A t \in Aborted : NoTraceOf(t)

C9_ConflictChangesNothing ==
    [][\A t \in Txns : pc'[t] = "conflict" =>
            /\ NoTraceOf(t)'
            /\ (pc[t] # "conflict" =>
                   UNCHANGED <<concept_versions, relationship_versions, disk>>)]_vars

\* An initial commit, a winning update and a losing update of one concept:
\* the store holds exactly its versions 1 and 2.
C9_Witness ==
    \E t \in Txns, c \in Concepts :
        /\ pc[t] = "conflict"
        /\ Len(concept_versions[c]) = 2
        /\ Ok(concept_versions[c][1].created_by)
        /\ Ok(concept_versions[c][2].created_by)
        /\ DiskVersions("cv", c) = {1, 2}

\* C10: the answer of read_as_of(id, T) is never changed by a step when T
\* is the start timestamp of a transaction that is open before and after
\* the step (begun, neither committing nor returned) or an instant that has
\* already passed.
SnapshotInstant(T) ==
    \/ T < now
    \/ \E t \in Txns : /\ pc[t] = "open" /\ pc'[t] = "open"
                        /\ t \in active_transactions
                        /\ txn[t].start_timestamp = T

C10_SnapshotStability ==
    [][\A T \in Time : SnapshotInstant(T) =>
            /\ \A c \in Concepts :
                  get_concept_version_at_timestamp(c, T)'
                      = get_concept_version_at_timestamp(c, T)
            /\ \A r \in Rels :
                  get_relationship_version_at_timestamp(r, T)'
                      = get_relationship_version_at_timestamp(r, T)]_vars

\* C11: for every entity id and every instant T at most one version record
\* of the chain is active at T (created_at <= T and deleted_at unset or
\* later than T).
ActiveConceptVersions(c, T) ==
    {i \in 1..Len(concept_versions[c]) :
        ConceptVersion_is_active_at(concept_versions[c][i], T)}

ActiveRelationshipVersions(r, T) ==
    {i \in 1..Len(relationship_versions[r]) :
        RelationshipVersion_is_active_at(relationship_versions[r][i], T)}

C11_AtMostOneActive ==
    /\ \A c \in Concepts, T \in Time : Cardinality(ActiveConceptVersions(c, T)) <= 1
    /\ \A r \in Rels, T \in Time : Cardinality(ActiveRelationshipVersions(r, T)) <= 1

\* C12: created_at is non-decreasing along every chain in append order.
NonDecreasing(chain) ==
    \A i \in 1..Len(chain) : i > 1 => chain[i - 1].created_at <= chain[i].created_at

C12_CreatedAtMonotone ==
    /\ \A c \in Concepts : NonDecreasing(concept_versions[c])
    /\ \A r \in Rels : NonDecreasing(relationship_versions[r])

\* C13: every version record in the index was created by a transaction
\* whose commit returned Ok, or whose commit is still running; no record of
\* a transaction whose commit failed is present.
C13_CreatedByCommitted ==
    \A v \in IndexRecords :
        Ok(v.created_by) \/ pc[v.created_by] \in {"apply", "cleanup"}

\* C14: once commit_transaction has returned Ok for a transaction that
\* wrote concept c, a read of c at any T from now on yields that
\* transaction's version, or a version appended after it by a commit that
\* did not fail.
C14_ReadYourCommit ==
    \A t \in Txns : Ok(t) =>
        \A c \in Concepts :
            LET chain == concept_versions[c] IN
            \A i \in 1..Len(chain) : chain[i].created_by = t =>
                \A T \in Time : T >= now =>
                    \E j \in i..Len(chain) :
                        /\ get_concept_version_at_timestamp(c, T) = {chain[j]}
                        /\ j > i => pc[chain[j].created_by] # "storage_error"

\* C18: begin_transaction adds exactly one entry, under a fresh id and with
\* an empty workspace, to the active map; only abort_transaction and the
\* cleanup of a successful commit remove an entry, and exactly that one; a
\* transaction never begun or already committed is not in the map.
AbortStepOf(t) ==
    /\ t \in active_transactions
    /\ active_transactions' = active_transactions \ {t}
    /\ UNCHANGED <<now, concept_versions, relationship_versions, disk,
                   txn, pc, todo, batch>>

C18_ActiveSetLifecycle ==
    [][\A t \in Txns :
          /\ (pc[t] = "idle" /\ pc'[t] = "open") =>
                /\ t \notin active_transactions
                /\ active_transactions' = active_transactions \cup {t}
                /\ txn'[t] = Transaction_new(now)
          /\ (pc[t] = "cleanup" /\ pc'[t] = "committed") =>
                active_transactions' = active_transactions \ {t}
          /\ (t \in active_transactions /\ t \notin active_transactions') =>
                \/ AbortStepOf(t)
                \/ /\ pc[t] = "cleanup" /\ pc'[t] = "committed"
                   /\ active_transactions' = active_transactions \ {t}
          /\ (t \notin active_transactions /\ t \in active_transactions') =>
                pc[t] = "idle"
          /\ (pc'[t] = "idle" \/ pc'[t] = "committed") =>
                t \notin active_transactions']_vars

\* One transaction committed, one aborted, one begun and still open.
C18_Witness ==
    \E t, u, w \in Txns :
        /\ Ok(t)
        /\ u \in Aborted
        /\ pc[w] = "open" /\ w \in active_transactions
        /\ active_transactions = {w}

\* C20: while a commit is between its first and its last index append, no
\* other commit runs its modification probe or appends a version, and no
\* other transaction takes a snapshot read.
InPhase2(t) ==
    /\ pc[t] = "apply"
    /\ todo[t] # {}
    /\ todo[t] # DOMAIN txn[t].pending_writes

C20_Phase2CriticalSection ==
    [][\A t, u \in Txns : (t # u /\ InPhase2(t)) =>
          /\ ~(pc[u] = "open" /\ pc'[u] # "open")
          /\ ~(pc[u] = "apply" /\ todo'[u] # todo[u])
          /\ txn'[u].relationship_write_set = txn[u].relationship_write_set]_vars

\* C15: relate fails with ConceptNotFound exactly when the source or the
\* target has no active version as of the start timestamp: a relate that
\* returns ConceptNotFound names the source when the source is missing and
\* otherwise the target, and changes neither index nor store; a relate that
\* stages a relationship found both endpoints; a failed call never leaves a
\* version record.
C15_RelateNotFound ==
    [][\A t \in Txns :
          /\ (pc[t] = "open" /\ pc'[t] = "failed"
                 /\ error'[t][1] = "ConceptNotFound") =>
                LET source == error'[t][3]
                    target == error'[t][4]
                    start  == txn[t].start_timestamp
                IN /\ \/ get_concept_version_at_timestamp(source, start) = {}
                      \/ get_concept_version_at_timestamp(target, start) = {}
                   /\ error'[t][2] =
                         IF get_concept_version_at_timestamp(source, start) = {}
                         THEN source ELSE target
                   /\ UNCHANGED <<concept_versions, relationship_versions, disk>>
          /\ \A r \in (DOMAIN txn'[t].pending_relationship_writes)
                          \ (DOMAIN txn[t].pending_relationship_writes) :
                LET rel == txn'[t].pending_relationship_writes[r]
                IN /\ get_concept_version_at_timestamp(
                          rel.source, txn[t].start_timestamp) # {}
                   /\ get_concept_version_at_timestamp(
                          rel.target, txn[t].start_timestamp) # {}
          /\ pc'[t] = "failed" => NoTraceOf(t)']_vars

\* relate(source, target) with two distinct concepts, both missing, has
\* returned ConceptNotFound(source).
C15_Witness ==
    \E t \in Txns :
        /\ pc[t] = "failed"
        /\ error[t][1] = "ConceptNotFound"
        /\ error[t][3] # error[t][4]
        /\ error[t][2] = error[t][3]
        /\ concept_versions[error[t][3]] = <<>>
        /\ concept_versions[error[t][4]] = <<>>

Related(s) ==
    {r \in Rels :
        /\ Len(relationship_versions[r]) > 0
        /\ relationship_versions[r][1].source = s
        /\ \A i \in 1..Len(relationship_versions[r]) :
              relationship_versions[r][i].deleted_at = None}

C19_AbortUnknownId ==
    [][\A t \in Txns :
          /\ (error[t] = <<>> /\ error'[t] # <<>> /\ error'[t][1] = "Transaction") =>
                /\ t \notin active_transactions
                /\ error'[t] = <<"Transaction", t>>
                /\ UNCHANGED <<now, concept_versions, relationship_versions, disk,
                               active_transactions, txn, pc, todo, batch>>
          /\ (pc'[t] = "idle" \/ Ok(t)') => t \notin active_transactions'
          /\ (pc[t] # "idle" /\ t \notin active_transactions) =>
                t \notin active_transactions']_vars

\* The error has been returned for an id never begun, for a committed one
\* and for an aborted one.
C19_Witness ==
    \E t, u, w \in Txns :
        /\ pc[t] = "idle" /\ error[t] = <<"Transaction", t>>
        /\ Ok(u) /\ error[u] = <<"Transaction", u>>
        /\ w \in Aborted /\ error[w] = <<"Transaction", w>>

\* C21: a commit writes its batch to the store before it appends any of its
\* versions to the index: every version record a read of the index can see
\* is already on disk under its own key.
C21_DiskBeforeIndex ==
    \A v \in IndexRecords : [key |-> KeyOf(v), value |-> v] \in disk

\* C22: the created_at of every version a commit installs is a reading of
\* the clock taken during that commit, never a timestamp the caller's
\* staged metadata carried: the step that appends a version to a chain
\* stamps it with the instant the clock shows at that step.
C22_CreatedAtIsCommitClock ==
    [][/\ \A c \in Concepts :
             Len(concept_versions'[c]) > Len(concept_versions[c]) =>
                 concept_versions'[c][Len(concept_versions'[c])].created_at = now
       /\ \A r \in Rels :
             Len(relationship_versions'[r]) > Len(relationship_versions[r]) =>
                 relationship_versions'[r][Len(relationship_versions'[r])].created_at
                     = now]_vars

\* C23: the validation probe, which inspects only the newest version of a
\* chain, answers as a probe over every version of the chain would: for
\* every id and every snapshot instant T it reports a modification iff some
\* version of the chain has created_at (or deleted_at) later than T.
C23_NewestOnlyProbeIsComplete ==
    /\ \A c \in Concepts, T \in Time :
          has_concept_been_modified_since(c, T)
              <=> \E i \in 1..Len(concept_versions[c]) :
                     concept_versions[c][i].created_at > T
    /\ \A r \in Rels, T \in Time :
          has_relationship_been_modified_since(r, T)
              <=> \E i \in 1..Len(relationship_versions[r]) :
                     \/ relationship_versions[r][i].created_at > T
                     \/ relationship_versions[r][i].deleted_at > T

\* C24: reads are not validated.  The outcome of the validation step is
\* decided by the write sets alone: a commit fails with TransactionConflict
\* only if an id of its write_set or relationship_write_set was modified
\* after its start, and proceeds whenever none was, whatever has happened to
\* the ids of its read_set.
C24_ReadsNotValidated ==
    [][\A t \in Txns :
          (pc[t] = "open" /\ pc'[t] # "open") =>
              LET start == txn[t].start_timestamp
                  written_modified ==
                      \/ \E c \in txn[t].write_set :
                            has_concept_been_modified_since(c, start)
                      \/ \E r \in txn[t].relationship_write_set :
                            has_relationship_been_modified_since(r, start)
              IN /\ written_modified => pc'[t] = "conflict"
                 /\ ~written_modified => pc'[t] = "apply"]_vars

\* A commit has passed validation and written its batch although a concept
\* it read, and did not write, has a version newer than its snapshot,
\* installed by a transaction that ran concurrently with it.
C24_Witness ==
    \E t, u \in Txns :
        /\ pc[t] = "cleanup"
        /\ {t, u} \in overlapped
        /\ \E c \in txn[t].read_set \ txn[t].write_set :
              /\ has_concept_been_modified_since(c, txn[t].start_timestamp)
              /\ concept_versions[c][Len(concept_versions[c])].created_by = u

\* C25: after hydration every chain is ordered by version number, ascending,
\* for any number of stored versions, including counts whose version numbers
\* have different decimal widths (9, 10, 11), the store returning the keys
\* in lexicographic order.
C25_HydratedChainsAscending ==
    manager = "up" =>
        \A c \in Concepts : \A i \in 1..Len(concept_versions[c]) :
            i > 1 => concept_versions[c][i - 1].version < concept_versions[c][i].version

C27_HydrationAllOrNothing ==
    manager = "up" =>
        \A e \in disk :
            e.key[1] = "cv" =>
                /\ decodes_as_concept_version(e.value)
                /\ e.value \in ConceptRecords

\* C28: commit_transaction called with a transaction that is not in the
\* active map (here: one that was aborted) fails with a Transaction error
\* and writes nothing to the index or the store.
C28_CommitUnknownRejected ==
    [][\A t \in Txns :
          (t \notin active_transactions /\ pc[t] = "open" /\ pc'[t] # "open") =>
              /\ pc'[t] = "failed"
              /\ error'[t] # <<>>
              /\ error'[t][1] = "Transaction"
              /\ UNCHANGED <<concept_versions, relationship_versions, disk>>]_vars

\* C29: a commit that failed with TransactionConflict has removed its
\* transaction from the active map.
C29_ConflictLeavesActiveMap ==
    \A t \in Txns : pc[t] = "conflict" => t \notin active_transactions

\* C30: after a commit failed with a Storage error the manager stays usable:
\* a fresh transaction, begun after the failure and running alone, that
\* writes the same concept installs the version numbered one above the last
\* version of that concept stored durably.
C30_UsableAfterStorageError ==
    [][\A t \in Txns, c \in Concepts :
          (/\ \E u \in Txns : pc[u] = "storage_error" /\ {u, t} \notin overlapped
           /\ InFlight = {t}
           /\ pc[t] = "apply"
           /\ c \in todo[t] /\ c \notin todo'[t]) =>
              LET stored == DiskVersions("cv", c)
                  last == IF stored = {} THEN 0
                          ELSE CHOOSE m \in stored : \A x \in stored : x <= m
              IN concept_versions'[c][Len(concept_versions'[c])].version = last + 1]_vars

C32_WorkspaceInvariant ==
    \A t \in Txns :
        /\ DOMAIN txn[t].pending_writes \subseteq txn[t].write_set
        /\ DOMAIN txn[t].pending_relationship_writes
               \subseteq txn[t].relationship_write_set
        /\ txn[t].pending_deletes \subseteq txn[t].relationship_write_set

\* Commits of all three kinds have been submitted: one with a staged delete
\* is inside commit_transaction while a store and a relate have committed.
C32_Witness ==
    \E t \in Txns :
        /\ pc[t] = "apply"
        /\ txn[t].pending_deletes # {}
        /\ \E c \in Concepts : Len(concept_versions[c]) > 0
        /\ \E r \in Rels : Len(relationship_versions[r]) > 0

\* C33: history is append-only: every step leaves each chain of the index a
\* prefix of what it becomes, and leaves every key of the store in place
\* with the value it had.
C33_AppendOnly ==
    [][/\ \A c \in Concepts :
             /\ Len(concept_versions[c]) <= Len(concept_versions'[c])
             /\ \A i \in 1..Len(concept_versions[c]) :
                   concept_versions'[c][i] = concept_versions[c][i]
       /\ \A r \in Rels :
             /\ Len(relationship_versions[r]) <= Len(relationship_versions'[r])
             /\ \A i \in 1..Len(relationship_versions[r]) :
                   relationship_versions'[r][i] = relationship_versions[r][i]
       /\ \A e \in disk : e \in disk']_vars

\* C35: no spurious conflicts: a commit returns TransactionConflict only if
\* another transaction whose commit succeeded, or is still running, has
\* installed on an id of its write sets a version stamped later than its
\* start.
C35_NoSpuriousConflict ==
    [][\A t \in Txns :
          (pc[t] = "open" /\ pc'[t] = "conflict") =>
              \E u \in Txns \ {t} :
                  /\ pc[u] \in {"apply", "cleanup", "committed"}
                  /\ \/ \E c \in txn[t].write_set :
                           \E i \in 1..Len(concept_versions[c]) :
                               /\ concept_versions[c][i].created_by = u
                               /\ concept_versions[c][i].created_at
                                      > txn[t].start_timestamp
                     \/ \E r \in txn[t].relationship_write_set :
                           \E i \in 1..Len(relationship_versions[r]) :
                               /\ relationship_versions[r][i].created_by = u
                               /\ \/ relationship_versions[r][i].created_at
                                         > txn[t].start_timestamp
                                  \/ relationship_versions[r][i].deleted_at
                                         > txn[t].start_timestamp]_vars

\* C36: commit_transaction installs a version only for an id its validation
\* examined: the concept an apply step appends a version for is in the
\* write_set of the committing transaction, also when the caller built the
\* transaction itself.
C36_InstalledIdsWereValidated ==
    [][\A t \in Txns, c \in Concepts :
          (pc[t] = "apply" /\ c \in todo[t] /\ c \notin todo'[t]) =>
              c \in txn[t].write_set]_vars

\* C37: the facade's one-shot operations leak no transaction: once store,
\* relate or unrelate has returned, with Ok or with any error, the
\* transaction it began is no longer in the active map.
C37_NoLeakedTransaction ==
    \A t \in Txns :
        pc[t] \in {"committed", "failed", "conflict", "storage_error"}
            => t \notin active_transactions

\* C34: the engine gives no per-writer progress guarantee.  In the fair
\* executions of the retrying-writer schedule the writer begins afresh after
\* each TransactionConflict, every one of its attempts ends in
\* TransactionConflict, it loses all MaxRetries rounds and none of its
\* commits ever returns Ok.
C34_RetryingWriterStarves ==
    /\ [](pc[Writer] \notin {"apply", "cleanup", "committed"})
    /\ [](pc[Writer] = "open" => <>(pc[Writer] = "conflict"))
    /\ <>(now = MaxRetries /\ pc[Writer] = "conflict")

\* The writer has lost its last round: MaxRetries versions of the rival are
\* in the chain, each installed while an attempt of the writer was open.
C34_Witness ==
    /\ now = MaxRetries
    /\ pc[Writer] = "conflict"
    /\ \E c \in Concepts :
          /\ Len(concept_versions[c]) = MaxRetries
          /\ \A i \in 1..MaxRetries : concept_versions[c][i].created_by = Rival


\* ------------------------------------------------------------- the RwLocks
\* The same calls at the grain of their lock acquisitions.  The manager has
\* three RwLocks: VersionStore::concept_versions,
\* VersionStore::relationship_versions and
\* TransactionManager::active_transactions.  `held[t]` is the set of guards
\* thread t holds, a guard being <<lock, mode>>; `pc[t]` is the position of
\* thread t: "x_wait" is blocked in RwLock::read / RwLock::write, "x_held"
\* is past it with the guard alive, "write" is inside db.write.

\* The guard each blocked position asks for.
wanted(position) ==
    CASE position = "begin_wait"    -> <<"active_transactions", "write">>
      [] position = "abort_wait"    -> <<"active_transactions", "write">>
      [] position = "cleanup_wait"  -> <<"active_transactions", "write">>
      [] position = "read_wait"     -> <<"concept_versions", "read">>
      [] position = "validate_wait" -> <<"concept_versions", "read">>
      [] position = "lookup_wait"   -> <<"concept_versions", "read">>
      [] position = "add_wait"      -> <<"concept_versions", "write">>
      [] position = "probe_wait"    -> <<"relationship_versions", "read">>

\* The position a thread is at once its request is granted.
granted(position) ==
    CASE position = "begin_wait"    -> "begin_held"
      [] position = "abort_wait"    -> "abort_held"
      [] position = "cleanup_wait"  -> "cleanup_held"
      [] position = "read_wait"     -> "read_held"
      [] position = "validate_wait" -> "validate_held"
      [] position = "lookup_wait"   -> "lookup_held"
      [] position = "add_wait"      -> "add_held"
      [] position = "probe_wait"    -> "probe_held"

Blocked == {"begin_wait", "abort_wait", "cleanup_wait", "read_wait",
            "validate_wait", "lookup_wait", "add_wait", "probe_wait"}

\* std::sync::RwLock: a write guard excludes every other guard of the lock,
\* a read guard excludes only a write guard.
can_lock(guard) ==
    IF guard[2] = "write"
    THEN \A u \in Txns : \A g \in held[u] : g[1] # guard[1]
    ELSE \A u \in Txns : <<guard[1], "write">> \notin held[u]

\* RwLock::read / RwLock::write returns the guard.
acquire(t) ==
    /\ pc[t] \in Blocked
    /\ can_lock(wanted(pc[t]))
    /\ held' = [held EXCEPT ![t] = @ \cup {wanted(pc[t])}]
    /\ pc' = [pc EXCEPT ![t] = granted(pc[t])]
    /\ UNCHANGED <<manager, now, concept_versions, relationship_versions, disk,
                   active_transactions, txn, todo, batch, overlapped, error>>

\* The threads that call into the manager, and the concept writes each one
\* stages before it commits.
MaxThreads == 2

MaxStaged == 1

\* begin_transaction up to the lock: Transaction::new reads the clock, then
\* the thread asks for the write lock of the active map.
begin_call(t) ==
    /\ pc[t] = "idle"
    /\ t <= MaxThreads
    /\ txn' = [txn EXCEPT ![t] = Transaction_new(now)]
    /\ pc' = [pc EXCEPT ![t] = "begin_wait"]
    /\ UNCHANGED <<manager, held, now, concept_versions, relationship_versions, disk,
                   active_transactions, todo, batch, overlapped, error>>

\* begin_transaction under the lock: insert, return (the guard drops).
begin_insert(t) ==
    /\ pc[t] = "begin_held"
    /\ active_transactions' = active_transactions \cup {t}
    /\ held' = [held EXCEPT ![t] = @ \ {<<"active_transactions", "write">>}]
    /\ pc' = [pc EXCEPT ![t] = "open"]
    /\ UNCHANGED <<manager, now, concept_versions, relationship_versions, disk,
                   txn, todo, batch, overlapped, error>>

\* abort_transaction is called.
abort_call(t) ==
    /\ pc[t] = "open"
    /\ pc' = [pc EXCEPT ![t] = "abort_wait"]
    /\ UNCHANGED <<manager, held, now, concept_versions, relationship_versions, disk,
                   active_transactions, txn, todo, batch, overlapped, error>>

\* abort_transaction under the lock: remove, return.
abort_remove(t) ==
    /\ pc[t] = "abort_held"
    /\ active_transactions' = active_transactions \ {t}
    /\ held' = [held EXCEPT ![t] = @ \ {<<"active_transactions", "write">>}]
    /\ pc' = [pc EXCEPT ![t] = "aborted"]
    /\ txn' = [txn EXCEPT ![t] = Dropped(@)]
    /\ UNCHANGED <<manager, now, concept_versions, relationship_versions, disk,
                   todo, batch, overlapped, error>>

\* A snapshot read is called, as GraphEngine::relate does before staging.
read_call(t) ==
    /\ pc[t] = "open"
    /\ DOMAIN txn[t].pending_writes = {}
    /\ txn[t].read_set = {}
    /\ pc' = [pc EXCEPT ![t] = "read_wait"]
    /\ UNCHANGED <<manager, held, now, concept_versions, relationship_versions, disk,
                   active_transactions, txn, todo, batch, overlapped, error>>

\* get_concept_version_at_timestamp under the read lock; the caller notes
\* the id it has read.
snapshot_read(t, concept_id) ==
    /\ pc[t] = "read_held"
    /\ concept_id \notin txn[t].read_set
    /\ txn' = [txn EXCEPT ![t].read_set = @ \cup {concept_id}]
    /\ held' = [held EXCEPT ![t] = @ \ {<<"concept_versions", "read">>}]
    /\ pc' = [pc EXCEPT ![t] = "open"]
    /\ UNCHANGED <<manager, now, concept_versions, relationship_versions, disk,
                   active_transactions, todo, batch, overlapped, error>>

\* The existence probe of GraphEngine::unrelate is called.
probe_call(t) ==
    /\ pc[t] = "open"
    /\ txn[t] = Transaction_new(txn[t].start_timestamp)
    /\ pc' = [pc EXCEPT ![t] = "probe_wait"]
    /\ UNCHANGED <<manager, held, now, concept_versions, relationship_versions, disk,
                   active_transactions, txn, todo, batch, overlapped, error>>

\* get_relationship_version_at_timestamp under the read lock: None returns
\* RelationshipNotFound, Some stages the delete.
probe(t, relationship_id) ==
    /\ pc[t] = "probe_held"
    /\ held' = [held EXCEPT ![t] = @ \ {<<"relationship_versions", "read">>}]
    /\ IF get_relationship_version_at_timestamp(relationship_id,
                                                txn[t].start_timestamp) = {}
       THEN /\ pc' = [pc EXCEPT ![t] = "failed"]
            /\ txn' = [txn EXCEPT ![t] = Dropped(@)]
       ELSE /\ pc' = [pc EXCEPT ![t] = "open"]
            /\ txn' = [txn EXCEPT
                         ![t].pending_deletes = @ \cup {relationship_id},
                         ![t].relationship_write_set = @ \cup {relationship_id}]
    /\ UNCHANGED <<manager, now, concept_versions, relationship_versions, disk,
                   active_transactions, todo, batch, overlapped, error>>

\* Where commit_transaction goes once `remaining` ids are left to validate:
\* the next probe, else the first iteration of the apply loop, else db.write.
after_validate(t, remaining) ==
    IF remaining # {} THEN "validate_wait"
    ELSE IF DOMAIN txn[t].pending_writes # {} THEN "lookup_wait"
    ELSE "write"

\* commit_transaction is called: validate_transaction starts its loop over
\* write_set.
commit_call(t) ==
    /\ pc[t] = "open"
    /\ pc' = [pc EXCEPT ![t] = after_validate(t, txn[t].write_set)]
    /\ todo' = [todo EXCEPT ![t] = IF txn[t].write_set # {} THEN txn[t].write_set
                                   ELSE DOMAIN txn[t].pending_writes]
    /\ UNCHANGED <<manager, held, now, concept_versions, relationship_versions, disk,
                   active_transactions, txn, batch, overlapped, error>>

\* One iteration of validate_transaction: has_concept_been_modified_since
\* under the read lock; a conflict returns at once.
validate_probe(t, concept_id) ==
    /\ pc[t] = "validate_held"
    /\ concept_id \in todo[t]
    /\ held' = [held EXCEPT ![t] = @ \ {<<"concept_versions", "read">>}]
    /\ IF has_concept_been_modified_since(concept_id, txn[t].start_timestamp)
       THEN /\ pc' = [pc EXCEPT ![t] = "conflict"]
            /\ todo' = [todo EXCEPT ![t] = {}]
            /\ txn' = [txn EXCEPT ![t] = Dropped(@)]
       ELSE /\ pc' = [pc EXCEPT ![t] = after_validate(t, todo[t] \ {concept_id})]
            /\ todo' = [todo EXCEPT ![t] = IF @ \ {concept_id} # {}
                                           THEN @ \ {concept_id}
                                           ELSE DOMAIN txn[t].pending_writes]
            /\ txn' = txn
    /\ UNCHANGED <<manager, now, concept_versions, relationship_versions, disk,
                   active_transactions, batch, overlapped, error>>

\* The apply loop, first half of an iteration: the last version is looked up
\* under the read lock, the new version is built and put into the batch.
apply_lookup(t, concept_id) ==
    /\ pc[t] = "lookup_held"
    /\ concept_id \in todo[t]
    /\ held' = [held EXCEPT ![t] = @ \ {<<"concept_versions", "read">>}]
    /\ LET new_version == from_concept(txn[t].pending_writes[concept_id], t,
                                       next_version_num(t, concept_id))
       IN batch' = [batch EXCEPT ![t] = @ \cup {store_concept_version(new_version)}]
    /\ pc' = [pc EXCEPT ![t] = "add_wait"]
    /\ UNCHANGED <<manager, now, concept_versions, relationship_versions, disk,
                   active_transactions, txn, todo, overlapped, error>>

\* The version the running iteration has built.
new_version_of(t) ==
    (CHOOSE e \in batch[t] : e.value.concept_id \in todo[t]).value

\* Faulty variant: the write guard of the concept index outlives add_concept_version.
apply_add_keeps_guard(t) ==
    /\ pc[t] = "add_held"
    /\ concept_versions' =
           [concept_versions EXCEPT ![new_version_of(t).concept_id] =
                Append(@, new_version_of(t))]
    /\ todo' = [todo EXCEPT ![t] = @ \ {new_version_of(t).concept_id}]
    /\ pc' = [pc EXCEPT ![t] =
                 IF todo[t] \ {new_version_of(t).concept_id} # {}
                 THEN "lookup_wait" ELSE "write"]
    /\ UNCHANGED <<manager, held, now, relationship_versions, disk,
                   active_transactions, txn, batch, overlapped, error>>

\* The apply loop, second half: add_concept_version pushes under the write
\* lock and returns; then the next iteration or db.write.
apply_add(t) ==
    /\ pc[t] = "add_held"
    /\ held' = [held EXCEPT ![t] = @ \ {<<"concept_versions", "write">>}]
    /\ concept_versions' =
           [concept_versions EXCEPT ![new_version_of(t).concept_id] =
                Append(@, new_version_of(t))]
    /\ todo' = [todo EXCEPT ![t] = @ \ {new_version_of(t).concept_id}]
    /\ pc' = [pc EXCEPT ![t] =
                 IF todo[t] \ {new_version_of(t).concept_id} # {}
                 THEN "lookup_wait" ELSE "write"]
    /\ UNCHANGED <<manager, now, relationship_versions, disk,
                   active_transactions, txn, batch, overlapped, error>>

\* self.backend.db.write(batch) answers Ok: on to the cleanup.
batch_write_ok(t) ==
    /\ pc[t] = "write"
    /\ disk' = db_write(disk, batch[t])
    /\ batch' = [batch EXCEPT ![t] = {}]
    /\ pc' = [pc EXCEPT ![t] = "cleanup_wait"]
    /\ UNCHANGED <<manager, held, now, concept_versions, relationship_versions,
                   active_transactions, txn, todo, overlapped, error>>

\* self.backend.db.write(batch) answers Err: commit_transaction returns it.
batch_write_fail(t) ==
    /\ pc[t] = "write"
    /\ Cardinality({u \in Txns : pc[u] = "storage_error"}) < MaxStorageFailures
    /\ batch' = [batch EXCEPT ![t] = {}]
    /\ pc' = [pc EXCEPT ![t] = "storage_error"]
    /\ txn' = [txn EXCEPT ![t] = Dropped(@)]
    /\ UNCHANGED <<manager, held, now, concept_versions, relationship_versions, disk,
                   active_transactions, todo, overlapped, error>>

\* Phase 3 under the lock: remove from the active map, return Ok(()).
cleanup_remove(t) ==
    /\ pc[t] = "cleanup_held"
    /\ active_transactions' = active_transactions \ {t}
    /\ held' = [held EXCEPT ![t] = @ \ {<<"active_transactions", "write">>}]
    /\ pc' = [pc EXCEPT ![t] = "committed"]
    /\ txn' = [txn EXCEPT ![t] = Dropped(@)]
    /\ UNCHANGED <<manager, now, concept_versions, relationship_versions, disk,
                   todo, batch, overlapped, error>>

\* The steps thread t takes inside a call: lock acquisitions, the code under
\* a guard, and the answer of the store.
Running(t) ==
    \/ acquire(t)
    \/ begin_insert(t)
    \/ abort_remove(t)
    \/ \E c \in Concepts : snapshot_read(t, c)
    \/ \E r \in Rels : probe(t, r)
    \/ \E c \in Concepts : validate_probe(t, c)
    \/ \E c \in Concepts : apply_lookup(t, c)
    \/ apply_add(t)
    \/ batch_write_ok(t)
    \/ batch_write_fail(t)
    \/ cleanup_remove(t)

\* Between calls a caller stages a concept write in its workspace.
stage_write(t, concept_id, data) ==
    /\ Cardinality(DOMAIN txn[t].pending_writes) < MaxStaged
    /\ write_concept(t, concept_id, data)

\* What callers do: invoke an operation or stage a write in their workspace.
Calls(t) ==
    \/ begin_call(t)
    \/ abort_call(t)
    \/ read_call(t)
    \/ probe_call(t)
    \/ commit_call(t)
    \/ \E c \in Concepts, d \in Payloads : stage_write(t, c, d)

NextLocks == Tick \/ \E t \in Txns : Calls(t) \/ Running(t)

\* Weak fairness of every thread's steps inside a call: a lock that stays
\* free is granted, code under a guard runs on, the store answers.
SpecLocks == Init /\ [][NextLocks]_vars /\ \A t \in Txns : WF_vars(Running(t))

\* Thread t is inside a call of the manager.
InCall(t) == pc[t] \in Blocked \cup {granted(p) : p \in Blocked} \cup {"write"}

\* C38: deadlock freedom.  A thread blocked on one of the manager's locks
\* holds no guard, no thread ever holds two guards, and under weak fairness
\* every invoked operation eventually returns.
C38_DeadlockFree ==
    /\ [](\A t \in Txns : /\ Cardinality(held[t]) <= 1
                          /\ pc[t] \in Blocked => held[t] = {})
    /\ \A t \in Txns : InCall(t) ~> ~InCall(t)

\* A committing thread is blocked on a lock another thread holds.
C38_Witness ==
    \E t \in Txns, u \in Txns :
        /\ t # u
        /\ pc[t] \in {"validate_wait", "lookup_wait", "add_wait", "cleanup_wait"}
        /\ ~can_lock(wanted(pc[t]))
        /\ \E g \in held[u] : g[1] = wanted(pc[t])[1]

====
